---- MODULE Spec2Model ----
(***************************************************************************)
(* Model of backend/main.py (AVG Anonimiseer backend): the retry wrapper   *)
(* call_mistral_with_retry around the provider call, and the two endpoints *)
(* analyze_text (/api/analyze) and analyze_image (/api/analyze-image).     *)
(*                                                                         *)
(* Every coroutine is cut at its await points: an action runs from one     *)
(* await to the next, as the asyncio event loop does.                      *)
(*                                                                         *)
(* Abstractions of data:                                                   *)
(*   - a text is a sequence of words separated by single spaces;           *)
(*   - a string value such as "De heer" is the sequence of its words;      *)
(*   - a confidence is kept in hundredths (0.95 is 95);                    *)
(*   - a JSON text is one of a few literal strings, parsed by json_loads.  *)
(***************************************************************************)
EXTENDS Integers, Sequences, FiniteSets, TLC

\* ------------------------------------------------------------------ bounds
\* Longest request text, in words.
MaxTextLen == 2

\* ------------------------------------------------------- program constants
MAX_RETRIES == 3

\* Mutant: the delay computed as 2 ** (attempt + 1).
RETRY_DELAYS_doubled == <<2, 4, 8>>

RETRY_DELAYS == <<1, 2, 4>>

MODEL == "mistral-large-latest"
VISION_MODEL == "pixtral-12b-2409"

\* The values os.getenv("MISTRAL_API_KEY") can give: None (unset), the empty
\* string, or a key.
KeyValues == {"None", "", "sk-key"}

\* Mutant: `MISTRAL_API_KEY is None`, which lets the empty string through.
NoKeyIsNone(k) == k = "None"

\* `not MISTRAL_API_KEY`: None and "" are both falsy.
NoKey(k) == k \in {"None", ""}

\* ------------------------------------------------------------------- texts
\* "Lorem" stands for one long run of letters (see Width); the others are
\* themselves.
Tokens == {"De", "heer", "dhr.", "Mevrouw", "Jan", "Lorem"}

\* len() of a word, in characters.
Width(w) ==
  CASE w = "De" -> 2
    [] w = "heer" -> 4
    [] w = "dhr." -> 4
    [] w = "Mevrouw" -> 7
    [] w = "Jan" -> 3
    [] w = "Lorem" -> 14999

\* str.lower of a word, as re.IGNORECASE compares it.
Lower(w) ==
  CASE w = "De" -> "de"
    [] w = "Mevrouw" -> "mevrouw"
    [] OTHER -> w

\* The part of a word that a pattern ending in \b can cover: a trailing "."
\* followed by white space or the end of the text is not followed by a word
\* boundary, so `dhr\.?` backtracks to "dhr".
Stem(w) == IF w = "dhr." THEN "dhr" ELSE w

\* A word that ends in a non-word character: `\s+` cannot follow it directly
Dotted(w) == w = "dhr."

RECURSIVE SeqsUpTo(_, _)
SeqsUpTo(S, n) ==
  IF n = 0 THEN {<<>>}
  ELSE LET shorter == SeqsUpTo(S, n - 1)
       IN shorter \cup {Append(s, x) : s \in {t \in shorter : Len(t) = n - 1}, x \in S}

Texts == SeqsUpTo(Tokens, MaxTextLen)

\* The signal patterns, in the order of the list; each is the sequence of
\* lower-case words it matches (the optional "." never survives, see Stem).
signal_patterns ==
  << <<"de", "heer">>, <<"dhr">>,
     <<"mevrouw">>, <<"mw">>,
     <<"veldwerker">>, <<"boormeester">>,
     <<"projectleider">>, <<"adviseur">>,
     <<"contactpersoon">> >>

\* Whether pattern p matches the words of text starting at word i.
MatchAt(p, text, i) ==
  /\ i + Len(p) - 1 <= Len(text)
  /\ \A k \in 1..Len(p) :
       /\ Lower(Stem(text[i + k - 1])) = p[k]
       /\ (k < Len(p) => ~Dotted(text[i + k - 1]))

\* match.group(0): the matched text as written (case kept).
Group0(p, text, i) == [k \in 1..Len(p) |-> Stem(text[i + k - 1])]

Indicator(v) == [type |-> "indicator", value |-> v, confidence |-> 100]

\* re.finditer(pattern, text, re.IGNORECASE): the non-overlapping matches,
\* left to right, from word i on.
RECURSIVE finditer(_, _, _)
finditer(p, text, i) ==
  IF i > Len(text) THEN <<>>
  ELSE IF MatchAt(p, text, i)
       THEN <<Indicator(Group0(p, text, i))>> \o finditer(p, text, i + Len(p))
       ELSE finditer(p, text, i + 1)

\* The two nested loops that fill regex_results: patterns in list order, and
\* for each pattern its matches in text order.
RECURSIVE scan_from(_, _)
scan_from(text, n) ==
  IF n > Len(signal_patterns) THEN <<>>
  ELSE finditer(signal_patterns[n], text, 1) \o scan_from(text, n + 1)

scan(text) == scan_from(text, 1)

\* The slice text[:limit], as the pieces of the words it keeps: each word
\* with the number of its characters that fall before the cut (the single
\* spaces between words count one character each).
RECURSIVE Slice(_, _)
Slice(text, limit) ==
  IF text = <<>> \/ limit <= 0 THEN <<>>
  ELSE LET w == Head(text)
       IN IF Width(w) <= limit
          THEN <<[word |-> w, chars |-> Width(w)]>> \o Slice(Tail(text), limit - Width(w) - 1)
          ELSE <<[word |-> w, chars |-> limit]>>

\* Mutant: the whole of request.text is sent.
safe_text_whole(text) == [i \in 1..Len(text) |-> [word |-> text[i], chars |-> Width(text[i])]]

\* safe_text = request.text[:15000]
SAFE_TEXT_LIMIT == 15000
safe_text(text) == Slice(text, SAFE_TEXT_LIMIT)

\* ------------------------------------------------------------ JSON values
\* A parsed JSON value as far as the endpoints look at it: a list with its
\* items, or something that is not a list (null).
List(items) == [isList |-> TRUE, items |-> items]
Null == [isList |-> FALSE, items |-> <<>>]

Email == [type |-> "email", value |-> <<"a@b.nl">>, confidence |-> 90]
Name == [type |-> "name", value |-> <<"Jan">>, confidence |-> 80]
Box == <<100, 200, 300, 400, 90>>

\* The `content` strings the provider may send on the text path and on the
\* image path.
TextContents ==
  {"oops", "[]", "{}", "{\"found\": null}", "{\"found\": []}",
   "{\"found\": [E]}", "{\"found\": [N, E]}"}
ImageContents ==
  {"oops", "[]", "{}", "{\"signatures\": null}", "{\"signatures\": [B]}"}

\* json.loads(content): valid is FALSE where it raises JSONDecodeError;
\* isObject tells a dict from a list; members is the dict.
json_loads(content) ==
  CASE content = "oops" ->
         [valid |-> FALSE, isObject |-> FALSE, members |-> <<>>]
    [] content = "[]" ->
         [valid |-> TRUE, isObject |-> FALSE, members |-> <<>>]
    [] content = "{}" ->
         [valid |-> TRUE, isObject |-> TRUE, members |-> <<>>]
    [] content = "{\"found\": null}" ->
         [valid |-> TRUE, isObject |-> TRUE, members |-> [k \in {"found"} |-> Null]]
    [] content = "{\"found\": []}" ->
         [valid |-> TRUE, isObject |-> TRUE, members |-> [k \in {"found"} |-> List(<<>>)]]
    [] content = "{\"found\": [E]}" ->
         [valid |-> TRUE, isObject |-> TRUE, members |-> [k \in {"found"} |-> List(<<Email>>)]]
    [] content = "{\"found\": [N, E]}" ->
         [valid |-> TRUE, isObject |-> TRUE, members |-> [k \in {"found"} |-> List(<<Name, Email>>)]]
    [] content = "{\"signatures\": null}" ->
         [valid |-> TRUE, isObject |-> TRUE, members |-> [k \in {"signatures"} |-> Null]]
    [] content = "{\"signatures\": [B]}" ->
         [valid |-> TRUE, isObject |-> TRUE, members |-> [k \in {"signatures"} |-> List(<<Box>>)]]

\* Mutant: dict.get(key), whose default is None.
dict_get_none(members, key) ==
  IF key \in DOMAIN members THEN members[key] ELSE Null

\* dict.get(key, []): the member, or the empty list when the key is absent.
dict_get(members, key) ==
  IF key \in DOMAIN members THEN members[key] ELSE List(<<>>)

\* --------------------------------------------------------------- provider
\* What one client.post can come to: an HTTP response (status code and, on
\* a 2xx, its body), httpx.TimeoutException, or another transport error
\* (httpx.ConnectError).
NoData == [isJson |-> FALSE, shaped |-> FALSE, content |-> ""]

\* A 2xx body: not JSON at all (response.json() raises), JSON without
\* choices[0].message.content, or JSON carrying a content string.
Bodies(contents) ==
  {NoData, [isJson |-> TRUE, shaped |-> FALSE, content |-> ""]}
    \cup {[isJson |-> TRUE, shaped |-> TRUE, content |-> c] : c \in contents}

Contents(k) == IF k = "text" THEN TextContents ELSE ImageContents

Outcomes(k) ==
  {[via |-> v, status_code |-> 0, data |-> NoData] : v \in {"timeout", "connect"}}
    \cup {[via |-> "http", status_code |-> c, data |-> NoData] : c \in {429, 500}}
    \cup {[via |-> "http", status_code |-> 200, data |-> d] : d \in Bodies(Contents(k))}

\* The class of an outcome, as the claims speak of it.
Class(out) ==
  CASE out.via = "timeout" -> "timeout"
    [] out.via = "connect" -> "connect"
    [] out.status_code = 429 -> "429"
    [] out.status_code = 200 -> "2xx"
    [] OTHER -> "error"

\* ----------------------------------------------------------------- errors
\* An exception: its class, the status code of its response (HTTPStatusError
\* only) and str(e).
NoError == [type |-> "None", status_code |-> 0, msg |-> ""]
HTTPStatusError(code) ==
  [type |-> "HTTPStatusError", status_code |-> code, msg |-> "Client or server error for url"]
TimeoutException ==
  [type |-> "TimeoutException", status_code |-> 0, msg |-> "The read operation timed out"]
ConnectError ==
  [type |-> "ConnectError", status_code |-> 0, msg |-> "All connection attempts failed"]
JSONDecodeError ==
  [type |-> "JSONDecodeError", status_code |-> 0, msg |-> "Expecting value: line 1 column 1 (char 0)"]
KeyError ==
  [type |-> "KeyError", status_code |-> 0, msg |-> "'choices'"]
AttributeError ==
  [type |-> "AttributeError", status_code |-> 0, msg |-> "'list' object has no attribute 'get'"]
TypeError ==
  [type |-> "TypeError", status_code |-> 0, msg |-> "can only concatenate list (not NoneType) to list"]

\* ---------------------------------------------------- call_mistral_with_retry
\* Mutant: the 429 branch sleeps and continues on the last attempt too.
rate_limit_retry_always(attempt) == attempt < MAX_RETRIES

\* `if attempt < MAX_RETRIES - 1` of the 429 branch.
rate_limit_retry(attempt) == attempt < MAX_RETRIES - 1

\* Mutant: the timeout branch gives up one attempt earlier than the 429 branch.
timeout_retry_once(attempt) == attempt < MAX_RETRIES - 2

\* Mutant: the timeout branch sleeps and continues on the last attempt too.
timeout_retry_always(attempt) == attempt < MAX_RETRIES

\* `if attempt < MAX_RETRIES - 1` of the timeout branch.
timeout_retry(attempt) == attempt < MAX_RETRIES - 1

\* Mutant: every 4xx and 5xx status is taken for a rate limit.
is_rate_limited_any(code) == code >= 400

\* `if e.response.status_code == 429`
is_rate_limited(code) == code = 429

\* response.raise_for_status(): a non-2xx status raises HTTPStatusError.
is_success(code) == code \in 200..299

\* What the body of the retry loop comes to on one attempt, given what the
\* post came to: it returns data, raises error, or sleeps delay and continues.
\* last is the new value of last_error.
Return(d, last) ==
  [ctl |-> "return", data |-> d, error |-> NoError, delay |-> 0, last |-> last]
\* Mutant: the exception is swallowed and the executor returns nothing.
Raise_swallowed(e, last) ==
  [ctl |-> "return", data |-> NoData, error |-> NoError, delay |-> 0, last |-> last]
Raise(e, last) ==
  [ctl |-> "raise", data |-> NoData, error |-> e, delay |-> 0, last |-> last]
Sleep(n, last) ==
  [ctl |-> "sleep", data |-> NoData, error |-> NoError, delay |-> n, last |-> last]

\* Mutant: last_error keeps the first error (`last_error = last_error or e`)
\* and that is the one raised.
loop_body_first(attempt, last, out) ==
  CASE out.via = "http" /\ is_success(out.status_code) ->
         IF out.data.isJson THEN Return(out.data, last) ELSE Raise(JSONDecodeError, last)
    [] out.via = "http" /\ ~is_success(out.status_code) ->
         LET e == HTTPStatusError(out.status_code)
             first == IF last = NoError THEN e ELSE last
         IN IF is_rate_limited(e.status_code) /\ rate_limit_retry(attempt)
            THEN Sleep(RETRY_DELAYS[attempt + 1], first)
            ELSE Raise(first, first)
    [] out.via = "timeout" ->
         LET e == TimeoutException
             first == IF last = NoError THEN e ELSE last
         IN IF timeout_retry(attempt)
            THEN Sleep(RETRY_DELAYS[attempt + 1], first)
            ELSE Raise(first, first)
    [] OTHER -> Raise(ConnectError, last)

loop_body(attempt, last, out) ==
  CASE out.via = "http" /\ is_success(out.status_code) ->
         IF out.data.isJson THEN Return(out.data, last) ELSE Raise(JSONDecodeError, last)
    [] out.via = "http" /\ ~is_success(out.status_code) ->
         LET e == HTTPStatusError(out.status_code)
         IN IF is_rate_limited(e.status_code) /\ rate_limit_retry(attempt)
            THEN Sleep(RETRY_DELAYS[attempt + 1], e)
            ELSE Raise(e, e)
    [] out.via = "timeout" ->
         LET e == TimeoutException
         IN IF timeout_retry(attempt)
            THEN Sleep(RETRY_DELAYS[attempt + 1], e)
            ELSE Raise(e, e)
    [] OTHER -> Raise(ConnectError, last)

\* -------------------------------------------------------------- responses
\* What the endpoint answers: the HTTP status, the detail of an HTTPException
\* and the JSON body of a success.
NoResponse == [status |-> 0, detail |-> "", body |-> Null]
Ok(value) == [status |-> 200, detail |-> "", body |-> value]
HTTPException(code, detail) == [status |-> code, detail |-> detail, body |-> Null]

mock_findings ==
  << [type |-> "name", value |-> <<"Jan", "Jansen">>, confidence |-> 95],
     [type |-> "email", value |-> <<"test@example.com">>, confidence |-> 99],
     [type |-> "iban", value |-> <<"NL99BANK0123456789">>, confidence |-> 98],
     [type |-> "iban", value |-> <<"NL99BANK0123456789">>, confidence |-> 98],
     [type |-> "phone", value |-> <<"06-12345678">>, confidence |-> 90],
     [type |-> "indicator", value |-> <<"De", "heer">>, confidence |-> 100] >>

\* Mutant: mistral_findings + regex_results
merge_provider_first(regex, found) == found \o regex

\* regex_results + mistral_findings
merge(regex, found) == regex \o found

\* analyze_text from the return of call_mistral_with_retry to the end of the
\* try block: the response, or the exception raised on the way.
text_parse(regex, data) ==
  IF ~data.shaped THEN [raised |-> KeyError, response |-> NoResponse]
  ELSE LET result == json_loads(data.content)
       IN IF ~result.valid THEN [raised |-> JSONDecodeError, response |-> NoResponse]
          ELSE IF ~result.isObject THEN [raised |-> AttributeError, response |-> NoResponse]
          ELSE LET mistral_findings == dict_get(result.members, "found")
               IN IF ~mistral_findings.isList
                  THEN [raised |-> TypeError, response |-> NoResponse]
                  ELSE [raised |-> NoError,
                        response |-> Ok(List(merge(regex, mistral_findings.items)))]

\* Mutant: the image endpoint's policy, an empty list for every exception.
text_except_swallow(e) == Ok(List(<<>>))

\* The two except clauses of analyze_text.
text_except(e) ==
  IF e.type = "HTTPStatusError"
  THEN HTTPException(502, "Error communicating with AI provider. Please try again.")
  ELSE HTTPException(500, e.msg)

\* analyze_image from the return of call_mistral_with_retry to the end of
\* the try block.
image_parse(data) ==
  IF ~data.shaped THEN [raised |-> KeyError, response |-> NoResponse]
  ELSE LET result == json_loads(data.content)
       IN IF ~result.valid THEN [raised |-> JSONDecodeError, response |-> NoResponse]
          ELSE IF ~result.isObject THEN [raised |-> AttributeError, response |-> NoResponse]
          ELSE [raised |-> NoError, response |-> Ok(dict_get(result.members, "signatures"))]

\* Mutant: the exception is passed on as an HTTP 500.
image_except_raise(e) == HTTPException(500, e.msg)

\* `except Exception` of analyze_image: the empty list.
image_except(e) == Ok(List(<<>>))

\* Mutant: the missing key is answered like any other failure of the endpoint.
config_error_swallowed == Ok(List(<<>>))

\* analyze_image without a key: raised before the try block.
config_error == HTTPException(500, "Mistral API Key not configured.")

\* Mutant: when the provider's output cannot be parsed, the text endpoint
\* answers with the local findings alone.
on_return_partial(k, regex, data) ==
  LET p == IF k = "text" THEN text_parse(regex, data) ELSE image_parse(data)
  IN IF p.raised = NoError THEN p.response
     ELSE IF k = "text" THEN Ok(List(regex)) ELSE image_except(p.raised)

\* The endpoint's answer once call_mistral_with_retry has returned data.
on_return(k, regex, data) ==
  LET p == IF k = "text" THEN text_parse(regex, data) ELSE image_parse(data)
  IN IF p.raised = NoError THEN p.response
     ELSE IF k = "text" THEN text_except(p.raised) ELSE image_except(p.raised)

\* The endpoint's answer once call_mistral_with_retry has raised e.
on_raise(k, e) == IF k = "text" THEN text_except(e) ELSE image_except(e)

\* ------------------------------------------------------------------ state
\* The inbound requests the model follows.
Req == {1, 2}

\* The texts the requests of the concurrent specification carry.
Corpus == {<<>>, <<"De", "heer">>}

Images == {"data:image/png;base64,AAAA"}

VARIABLES
  MISTRAL_API_KEY,  \* the module global, read once at start
  kind,             \* per request: "none" (not yet received), "text", "image"
  text,             \* per request: request.text
  pc,               \* per request: the await its coroutine is suspended at
  regex_results,    \* per request: the local of analyze_text
  payload,          \* per request: the payload handed to the executor
  attempt,          \* per request: the loop variable of the executor
  last_error,       \* per request: the local of the executor
  calls,            \* per request: client.post calls made so far
  sleeps,           \* per request: the delays handed to asyncio.sleep, in order
  outcomes,         \* per request: the classes of the provider's answers, in order
  raised,           \* per request: the exception that left the executor
  data,             \* per request: what the executor returned
  response          \* per request: what the endpoint answered

vars ==
  <<MISTRAL_API_KEY, kind, text, pc, regex_results, payload, attempt,
    last_error, calls, sleeps, outcomes, raised, data, response>>

NoPayload == [model |-> "", content |-> <<>>, image |-> "", timeout |-> 0]

Init ==
  /\ MISTRAL_API_KEY \in KeyValues
  /\ kind = [r \in Req |-> "none"]
  /\ text = [r \in Req |-> <<>>]
  /\ pc = [r \in Req |-> "idle"]
  /\ regex_results = [r \in Req |-> <<>>]
  /\ payload = [r \in Req |-> NoPayload]
  /\ attempt = [r \in Req |-> 0]
  /\ last_error = [r \in Req |-> NoError]
  /\ calls = [r \in Req |-> 0]
  /\ sleeps = [r \in Req |-> <<>>]
  /\ outcomes = [r \in Req |-> <<>>]
  /\ raised = [r \in Req |-> NoError]
  /\ data = [r \in Req |-> NoData]
  /\ response = [r \in Req |-> NoResponse]

\* ---------------------------------------------------------------- actions
\* POST /api/analyze arrives: analyze_text up to its first await, which is
\* the sleep of mock mode or the first client.post of the executor.
analyze_text(r, t) ==
  /\ pc[r] = "idle"
  /\ kind' = [kind EXCEPT ![r] = "text"]
  /\ text' = [text EXCEPT ![r] = t]
  /\ IF NoKey(MISTRAL_API_KEY)
     THEN /\ pc' = [pc EXCEPT ![r] = "mock"]
          /\ UNCHANGED <<regex_results, payload, attempt, last_error, calls>>
     ELSE /\ regex_results' = [regex_results EXCEPT ![r] = scan(t)]
          /\ payload' = [payload EXCEPT ![r] =
                          [model |-> MODEL, content |-> safe_text(t),
                           image |-> "", timeout |-> 30]]
          /\ attempt' = [attempt EXCEPT ![r] = 0]
          /\ last_error' = [last_error EXCEPT ![r] = NoError]
          /\ calls' = [calls EXCEPT ![r] = 1]
          /\ pc' = [pc EXCEPT ![r] = "post"]
  /\ UNCHANGED <<MISTRAL_API_KEY, sleeps, outcomes, raised, data, response>>

\* asyncio.sleep(1) of mock mode ends: the canned findings are returned.
mock_return(r) ==
  /\ pc[r] = "mock"
  /\ response' = [response EXCEPT ![r] = Ok(List(mock_findings))]
  /\ pc' = [pc EXCEPT ![r] = "done"]
  /\ UNCHANGED <<MISTRAL_API_KEY, kind, text, regex_results, payload, attempt,
                 last_error, calls, sleeps, outcomes, raised, data>>

\* POST /api/analyze-image arrives: analyze_image up to its first await, or
\* to the HTTPException it raises without a key.
analyze_image(r, img) ==
  /\ pc[r] = "idle"
  /\ kind' = [kind EXCEPT ![r] = "image"]
  /\ IF NoKey(MISTRAL_API_KEY)
     THEN /\ response' = [response EXCEPT ![r] = config_error]
          /\ pc' = [pc EXCEPT ![r] = "done"]
          /\ UNCHANGED <<payload, attempt, last_error, calls>>
     ELSE /\ payload' = [payload EXCEPT ![r] =
                          [model |-> VISION_MODEL, content |-> <<>>,
                           image |-> img, timeout |-> 60]]
          /\ attempt' = [attempt EXCEPT ![r] = 0]
          /\ last_error' = [last_error EXCEPT ![r] = NoError]
          /\ calls' = [calls EXCEPT ![r] = 1]
          /\ pc' = [pc EXCEPT ![r] = "post"]
          /\ UNCHANGED response
  /\ UNCHANGED <<MISTRAL_API_KEY, text, regex_results, sleeps, outcomes, raised, data>>

\* Mutant: the endpoint calls the executor again when it has raised.
Finish_again(r, e, d) ==
  IF e # NoError /\ Len(outcomes[r]) < MAX_RETRIES
  THEN /\ pc' = [pc EXCEPT ![r] = "post"]
       /\ UNCHANGED <<raised, data, response>>
  ELSE /\ raised' = [raised EXCEPT ![r] = e]
       /\ data' = [data EXCEPT ![r] = d]
       /\ response' = [response EXCEPT ![r] =
                         IF e = NoError THEN on_return(kind[r], regex_results[r], d)
                         ELSE on_raise(kind[r], e)]
       /\ pc' = [pc EXCEPT ![r] = "done"]

\* The executor leaves with exception e (e is NoError when it returns d):
\* the endpoint answers.
Finish(r, e, d) ==
  /\ raised' = [raised EXCEPT ![r] = e]
  /\ data' = [data EXCEPT ![r] = d]
  /\ response' = [response EXCEPT ![r] =
                    IF e = NoError THEN on_return(kind[r], regex_results[r], d)
                    ELSE on_raise(kind[r], e)]
  /\ pc' = [pc EXCEPT ![r] = "done"]

\* Mutant: a blocking time.sleep(delay): while a request sleeps, the event
\* loop resumes no other coroutine.
client_post_blocking(r) ==
  /\ pc[r] = "post"
  /\ \A q \in Req : pc[q] # "backoff"
  /\ \E out \in Outcomes(kind[r]) :
       LET step == loop_body(attempt[r], last_error[r], out)
       IN /\ outcomes' = [outcomes EXCEPT ![r] = Append(@, Class(out))]
          /\ last_error' = [last_error EXCEPT ![r] = step.last]
          /\ IF step.ctl = "sleep"
             THEN /\ sleeps' = [sleeps EXCEPT ![r] = Append(@, step.delay)]
                  /\ pc' = [pc EXCEPT ![r] = "backoff"]
                  /\ UNCHANGED <<raised, data, response>>
             ELSE /\ raised' = [raised EXCEPT ![r] = step.error]
                  /\ data' = [data EXCEPT ![r] = step.data]
                  /\ response' = [response EXCEPT ![r] =
                                    IF step.error = NoError
                                    THEN on_return(kind[r], regex_results[r], step.data)
                                    ELSE on_raise(kind[r], step.error)]
                  /\ pc' = [pc EXCEPT ![r] = "done"]
                  /\ UNCHANGED sleeps
  /\ UNCHANGED <<MISTRAL_API_KEY, kind, text, regex_results, payload, attempt, calls>>

\* The awaited client.post comes to an outcome: the rest of the loop body,
\* and, when the executor returns or raises, the rest of the endpoint.
client_post(r) ==
  /\ pc[r] = "post"
  /\ \E out \in Outcomes(kind[r]) :
       LET step == loop_body(attempt[r], last_error[r], out)
       IN /\ outcomes' = [outcomes EXCEPT ![r] = Append(@, Class(out))]
          /\ last_error' = [last_error EXCEPT ![r] = step.last]
          /\ IF step.ctl = "sleep"
             THEN /\ sleeps' = [sleeps EXCEPT ![r] = Append(@, step.delay)]
                  /\ pc' = [pc EXCEPT ![r] = "backoff"]
                  /\ UNCHANGED <<raised, data, response>>
             ELSE /\ Finish(r, step.error, step.data)
                  /\ UNCHANGED sleeps
  /\ UNCHANGED <<MISTRAL_API_KEY, kind, text, regex_results, payload, attempt, calls>>

\* `for attempt in range(MAX_RETRIES)`: whether another iteration follows.
range_next(a) == a + 1 < MAX_RETRIES

\* `raise last_error` after the loop; raising None is a TypeError.
raise_last(e) == IF e = NoError THEN TypeError ELSE e

\* Mutant: attempt is one counter shared by all requests (a module global).
wake_shared(r) ==
  /\ pc[r] = "backoff"
  /\ attempt' = [q \in Req |-> attempt[q] + 1]
  /\ calls' = [calls EXCEPT ![r] = @ + 1]
  /\ pc' = [pc EXCEPT ![r] = "post"]
  /\ UNCHANGED <<MISTRAL_API_KEY, kind, text, regex_results, payload,
                 last_error, sleeps, outcomes, raised, data, response>>

\* The awaited asyncio.sleep(delay) ends: `continue` takes the loop to its
\* next iteration and its client.post, or out of the loop to `raise last_error`.
wake(r) ==
  /\ pc[r] = "backoff"
  /\ IF range_next(attempt[r])
     THEN /\ attempt' = [attempt EXCEPT ![r] = @ + 1]
          /\ calls' = [calls EXCEPT ![r] = @ + 1]
          /\ pc' = [pc EXCEPT ![r] = "post"]
          /\ UNCHANGED <<raised, data, response>>
     ELSE /\ Finish(r, raise_last(last_error[r]), NoData)
          /\ UNCHANGED <<attempt, calls>>
  /\ UNCHANGED <<MISTRAL_API_KEY, kind, text, regex_results, payload,
                 last_error, sleeps, outcomes>>

\* --------------------------------------------------------- specifications
\* One request, over every text of the bound.
Next ==
  \/ \E t \in Texts : analyze_text(1, t)
  \/ \E img \in Images : analyze_image(1, img)
  \/ mock_return(1)
  \/ client_post(1)
  \/ wake(1)

Spec == Init /\ [][Next]_vars

\* The requests of Req, interleaved at their awaits.
NextConc ==
  \E r \in Req :
    \/ \E t \in Corpus : analyze_text(r, t)
    \/ \E img \in Images : analyze_image(r, img)
    \/ mock_return(r)
    \/ client_post(r)
    \/ wake(r)

SpecConc == Init /\ [][NextConc]_vars

\* What the event loop does for a request that has been received: each of
\* its awaits ends (the post by its answer or its timeout, a sleep by its
\* delay) and the coroutine is resumed.
Resume(r) == mock_return(r) \/ client_post(r) \/ wake(r)

\* The concurrent requests where only the awaits of request 2 are sure to
\* end: request 1 may stay suspended for ever.
\* One request whose awaits are all sure to end.
SpecLive == Init /\ [][Next]_vars /\ WF_vars(Resume(1))

SpecStalled == Init /\ [][NextConc]_vars /\ WF_vars(Resume(2))

\* ----------------------------------------------------------------- claims
\* Vocabulary of the claims.
Done(r) == pc[r] = "done"
HasKey == MISTRAL_API_KEY \notin {"None", ""}
Called(r) == outcomes[r] # <<>>
LastOutcome(r) == outcomes[r][Len(outcomes[r])]
Only(seq, c) == \A i \in 1..Len(seq) : seq[i] = c
RateLimitError == [type |-> "HTTPStatusError", status_code |-> 429,
                   msg |-> "Client or server error for url"]

\* C1 as stated: against a provider that answers every call with 429, the
\* executor makes exactly MAX_RETRIES calls, sleeps the delays 1, 2, 4 and
\* then fails with the rate-limit error.
C1_DelaysOneTwoFour ==
  \A r \in Req :
    (Done(r) /\ Called(r) /\ Only(outcomes[r], "429")) =>
      /\ calls[r] = 3
      /\ sleeps[r] = <<1, 2, 4>>
      /\ raised[r] = RateLimitError

\* C1 amended: against a provider that answers every call with 429, the
\* executor does not end before its third call, makes exactly 3 calls,
\* sleeps 1 and then 2 seconds between them (the 4 of the schedule is never
\* slept) and then fails with the rate-limit error.
C1_RetryExhaustion ==
  \A r \in Req :
    (Called(r) /\ Only(outcomes[r], "429")) =>
      /\ Len(outcomes[r]) <= 3
      /\ Len(outcomes[r]) < 3 => ~Done(r)
      /\ Done(r) =>
           /\ calls[r] = 3
           /\ sleeps[r] = <<1, 2>>
           /\ raised[r] = RateLimitError

C1_Witness ==
  \E r \in Req : Done(r) /\ outcomes[r] = <<"429", "429", "429">>

\* C2: a non-2xx answer that is not a 429 ends the call sequence on the
\* attempt where it occurs: the request is done at once, the error is the
\* one raised, no sleep follows it and no further call is made; on the
\* first attempt that is exactly one call and no sleep.
C2_NoRetryOnOtherStatus ==
  \A r \in Req :
    (Called(r) /\ LastOutcome(r) = "error") =>
      /\ Done(r)
      /\ raised[r].type = "HTTPStatusError" /\ raised[r].status_code = 500
      /\ calls[r] = Len(outcomes[r])
      /\ Len(sleeps[r]) = Len(outcomes[r]) - 1
      /\ Len(outcomes[r]) = 1 => (calls[r] = 1 /\ sleeps[r] = <<>>)

C2_Witness ==
  \E r \in Req : Done(r) /\ outcomes[r] = <<"error">> /\ calls[r] = 1

\* The outcomes with every timeout replaced by a 429.
AsRateLimit(seq) ==
  [i \in 1..Len(seq) |-> IF seq[i] = "timeout" THEN "429" ELSE seq[i]]

\* C3: two requests whose provider outcomes differ only in 429 against
\* timeout have slept the same delays, are both ended or both not, and once
\* ended have made the same number of calls and ended on the same attempt.
C3_TimeoutLikeRateLimit ==
  \A r1, r2 \in Req :
    (Called(r1) /\ AsRateLimit(outcomes[r1]) = AsRateLimit(outcomes[r2])) =>
      /\ sleeps[r1] = sleeps[r2]
      /\ Done(r1) <=> Done(r2)
      /\ (Done(r1) /\ Done(r2)) =>
           /\ calls[r1] = calls[r2]
           /\ attempt[r1] = attempt[r2]

C3_Witness ==
  \E r1, r2 \in Req :
    /\ Done(r1) /\ outcomes[r1] = <<"429", "timeout", "429">>
    /\ Done(r2) /\ outcomes[r2] = <<"timeout", "429", "timeout">>
    /\ raised[r1].type = "HTTPStatusError"
    /\ raised[r2].type = "TimeoutException"

\* The answer that stands for "upstream AI provider unavailable".
Unavailable ==
  [status |-> 502,
   detail |-> "Error communicating with AI provider. Please try again.",
   body |-> Null]

\* C4: on the text endpoint with a key, whenever the executor fails with a
\* 429, a timeout or another non-2xx status, the caller gets the one
\* provider-unavailable answer, the same for all three.
C4_OneUnavailableAnswer ==
  \A r \in Req :
    (/\ kind[r] = "text" /\ HasKey /\ Done(r) /\ Called(r)
     /\ LastOutcome(r) \in {"429", "timeout", "error"}) =>
      response[r] = Unavailable

\* The provider's list on the text path, read off the content string.
FoundIn(content) ==
  CASE content = "{\"found\": [E]}" ->
         <<[type |-> "email", value |-> <<"a@b.nl">>, confidence |-> 90]>>
    [] content = "{\"found\": [N, E]}" ->
         <<[type |-> "name", value |-> <<"Jan">>, confidence |-> 80],
           [type |-> "email", value |-> <<"a@b.nl">>, confidence |-> 90]>>
    [] OTHER -> <<>>

Succeeded(r) == Done(r) /\ response[r].status = 200

\* C5: a successful text analysis with a key returns the local findings of
\* the full request text, unchanged and in their order, followed by the
\* provider's found entries, unchanged and in their order; every local
\* finding is an indicator and stands before every provider finding.
C5_LocalThenProvider ==
  \A r \in Req :
    (kind[r] = "text" /\ HasKey /\ Succeeded(r)) =>
      LET local == scan(text[r])
          found == FoundIn(data[r].content)
          items == response[r].body.items
      IN /\ response[r].body.isList
         /\ Len(items) = Len(local) + Len(found)
         /\ \A i \in 1..Len(local) :
              items[i] = local[i] /\ items[i].type = "indicator"
         /\ \A j \in 1..Len(found) :
              items[Len(local) + j] = found[j] /\ found[j].type # "indicator"

C5_Witness ==
  \E r \in Req :
    /\ kind[r] = "text" /\ HasKey /\ Succeeded(r)
    /\ text[r] = <<"Mevrouw", "dhr.">>
    /\ data[r].content = "{\"found\": [N, E]}"
    /\ Len(response[r].body.items) = 4
    /\ response[r].body.items[1].value = <<"dhr">>
    /\ response[r].body.items[2].value = <<"Mevrouw">>

\* The canned answer of mock mode, as the caller sees it.
Canned ==
  [status |-> 200, detail |-> "",
   body |-> [isList |-> TRUE, items |->
     << [type |-> "name", value |-> <<"Jan", "Jansen">>, confidence |-> 95],
        [type |-> "email", value |-> <<"test@example.com">>, confidence |-> 99],
        [type |-> "iban", value |-> <<"NL99BANK0123456789">>, confidence |-> 98],
        [type |-> "iban", value |-> <<"NL99BANK0123456789">>, confidence |-> 98],
        [type |-> "phone", value |-> <<"06-12345678">>, confidence |-> 90],
        [type |-> "indicator", value |-> <<"De", "heer">>, confidence |-> 100] >>]]

\* C6: without a key (unset or empty), a text request makes no provider
\* call and never ends in an error; once answered, the answer is the same
\* 6 canned findings whatever the text.
C6_MockMode ==
  \A r \in Req :
    (kind[r] = "text" /\ MISTRAL_API_KEY \in {"None", ""}) =>
      /\ pc[r] \in {"mock", "done"}
      /\ calls[r] = 0 /\ outcomes[r] = <<>>
      /\ Done(r) =>
           /\ response[r] = Canned
           /\ Len(response[r].body.items) = 6

C6_Witness ==
  \E r \in Req :
    /\ kind[r] = "text" /\ MISTRAL_API_KEY = "" /\ Done(r)
    /\ text[r] = <<"Lorem", "Jan">>
    /\ Len(response[r].body.items) = 6

\* C7: with a key, an image request never ends in an error: after a 429,
\* a timeout or another non-2xx status, after a 2xx without the
\* choices/message/content shape and after content that is not valid JSON
\* the answer is the empty array; after content that carries a signatures
\* member the answer is that member.
C7_ImageNeverFails ==
  \A r \in Req :
    (kind[r] = "image" /\ HasKey /\ Done(r)) =>
      /\ response[r].status = 200 /\ response[r].detail = ""
      /\ LastOutcome(r) \in {"429", "timeout", "error"} =>
           response[r].body = [isList |-> TRUE, items |-> <<>>]
      /\ (LastOutcome(r) = "2xx" /\ (~data[r].shaped \/ data[r].content = "oops")) =>
           response[r].body = [isList |-> TRUE, items |-> <<>>]
      /\ data[r].content = "{\"signatures\": [B]}" =>
           response[r].body = [isList |-> TRUE, items |-> <<(<<100, 200, 300, 400, 90>>)>>]
      /\ data[r].content = "{\"signatures\": null}" => ~response[r].body.isList

C7_Witness ==
  \E r \in Req :
    /\ kind[r] = "image" /\ HasKey /\ Done(r)
    /\ outcomes[r] = <<"timeout", "429", "429">>
    /\ response[r].status = 200 /\ response[r].body.items = <<>>

\* C8: without a key, an image request is answered at once with the
\* configuration error (HTTP 500), with no provider call and not as an
\* empty array, while a text request under the same configuration is
\* answered with the mock data: the two answers differ.
C8_NoKeyImageFails ==
  \A r \in Req :
    (kind[r] = "image" /\ MISTRAL_API_KEY \in {"None", ""}) =>
      /\ Done(r) /\ calls[r] = 0 /\ outcomes[r] = <<>>
      /\ response[r].status = 500
      /\ response[r].detail = "Mistral API Key not configured."
      /\ ~response[r].body.isList
      /\ \A q \in Req :
           (kind[q] = "text" /\ Done(q)) =>
             /\ response[q].status = 200
             /\ Len(response[q].body.items) = 6
             /\ response[q] # response[r]

C8_Witness ==
  \E r, q \in Req :
    /\ MISTRAL_API_KEY = "None"
    /\ kind[r] = "image" /\ Done(r) /\ response[r].status = 500
    /\ kind[q] = "text" /\ Done(q) /\ response[q].status = 200

\* The content was handed to json.loads.
Parsed(r) ==
  /\ kind[r] = "text" /\ HasKey /\ Done(r)
  /\ raised[r].type = "None" /\ data[r].shaped

ValidJson(content) == content # "oops"
HasFoundKey(content) ==
  content \in {"{\"found\": null}", "{\"found\": []}",
               "{\"found\": [E]}", "{\"found\": [N, E]}"}

\* C9 as stated: on the text path, content that is not valid JSON or that
\* lacks the found key is answered with an error, never with a success.
C9_MalformedIsError ==
  \A r \in Req :
    (Parsed(r) /\ (~ValidJson(data[r].content) \/ ~HasFoundKey(data[r].content))) =>
      response[r].status # 200

\* C9 amended: on the text path, content that is not valid JSON is answered
\* with an error (HTTP 500 carrying no findings), never with a success;
\* content that is a JSON object without the found key is not an error.
C9_InvalidJsonIsError ==
  \A r \in Req :
    Parsed(r) =>
      /\ ~ValidJson(data[r].content) =>
           /\ response[r].status = 500
           /\ ~response[r].body.isList
      /\ data[r].content = "{}" => response[r].status = 200

C9_Witness ==
  \E r \in Req :
    Parsed(r) /\ data[r].content = "oops" /\ response[r].status = 500

\* C10: on the text path, when the provider call succeeds with content that
\* is a JSON object without the found key, the request succeeds and returns
\* exactly the local findings of the request text.
C10_MissingFoundIsEmpty ==
  \A r \in Req :
    (Parsed(r) /\ data[r].content = "{}") =>
      /\ response[r].status = 200
      /\ response[r].body.isList
      /\ response[r].body.items = scan(text[r])

C10_Witness ==
  \E r \in Req :
    /\ Parsed(r) /\ data[r].content = "{}"
    /\ text[r] = <<"De", "heer">>
    /\ response[r].status = 200
    /\ Len(response[r].body.items) = 1
    /\ response[r].body.items[1].value = <<"De", "heer">>

\* The number of characters of a text before its word i, and the length of
\* the text, single spaces between the words counted.
RECURSIVE CharsBefore(_, _)
CharsBefore(txt, i) ==
  IF i = 1 THEN 0 ELSE CharsBefore(txt, i - 1) + Width(txt[i - 1]) + 1
CharLen(txt) == IF txt = <<>> THEN 0 ELSE CharsBefore(txt, Len(txt) + 1) - 1

\* How many characters of word i lie among the first 15,000 of the text.
Kept(txt, i) ==
  LET room == 15000 - CharsBefore(txt, i)
  IN IF room <= 0 THEN 0 ELSE IF room >= Width(txt[i]) THEN Width(txt[i]) ELSE room

\* A text request that has reached the provider path.
Analyzing(r) == kind[r] = "text" /\ HasKey /\ pc[r] # "idle"

\* C11: of a text request, and so of every text longer than 15,000
\* characters, the provider is sent exactly the characters among the first
\* 15,000: each word with as many of its characters as lie before the cut,
\* and nothing after it; the local findings are those of the full text, and
\* a successful answer starts with them, indicators beyond the cut included.
C11_TruncatedForProviderOnly ==
  \A r \in Req :
    Analyzing(r) =>
      LET sent == payload[r].content
          n == Cardinality({i \in 1..Len(text[r]) : Kept(text[r], i) > 0})
          local == scan(text[r])
      IN /\ Len(sent) = n
         /\ \A i \in 1..n :
              sent[i].word = text[r][i] /\ sent[i].chars = Kept(text[r], i)
         /\ CharLen(text[r]) > 15000 => n >= 1 /\ sent[n].chars < 15000
         /\ regex_results[r] = local
         /\ Succeeded(r) =>
              /\ Len(response[r].body.items) >= Len(local)
              /\ \A i \in 1..Len(local) : response[r].body.items[i] = local[i]

C11_Witness ==
  \E r \in Req :
    /\ Analyzing(r) /\ Succeeded(r)
    /\ text[r] = <<"Lorem", "dhr.">>
    /\ CharLen(text[r]) = 15004
    /\ payload[r].content = <<[word |-> "Lorem", chars |-> 14999]>>
    /\ data[r].content = "{\"found\": [E]}"
    /\ response[r].body.items[1].value = <<"dhr">>

\* The retry state of a request, and everything else that is its own.
RetryState(r) == <<attempt[r], last_error[r], calls[r], sleeps[r]>>
Own(r) ==
  <<kind[r], text[r], pc[r], regex_results[r], payload[r], attempt[r],
    last_error[r], calls[r], sleeps[r], outcomes[r], raised[r], data[r],
    response[r]>>

\* The delays a request has slept by its own outcomes alone: one entry of
\* 1, 2 for each 429 or timeout among its first two outcomes.
OwnSleeps(outs) ==
  SubSeq(<<1, 2>>, 1,
         Cardinality({i \in 1..Len(outs) : i < 3 /\ outs[i] \in {"429", "timeout"}}))

\* Calls, delays and attempt of a request follow from its own outcomes.
C12_OwnBudget ==
  \A r \in Req :
    (kind[r] # "none" /\ HasKey) =>
      /\ sleeps[r] = OwnSleeps(outcomes[r])
      /\ calls[r] = Len(outcomes[r]) + (IF pc[r] = "post" THEN 1 ELSE 0)
      /\ calls[r] \in 1..3
      /\ attempt[r] = calls[r] - 1

\* A step belongs to one request and leaves every other request's state as
\* it was; a request that is received starts at attempt 0 with no last error.
C12_OwnStep ==
  /\ \A r1, r2 \in Req :
       (r1 # r2 /\ Own(r1)' # Own(r1)) => Own(r2)' = Own(r2)
  /\ \A r \in Req :
       (pc[r] = "idle" /\ pc'[r] = "post") =>
         (attempt'[r] = 0 /\ calls'[r] = 1 /\ last_error'[r].type = "None")

\* C12: every request has its own retry budget: under every interleaving
\* its calls, delays and attempt follow from its own provider outcomes, it
\* starts at attempt 0 and may make 3 calls whatever its peers did, and no
\* step of one request changes the retry state of another.
C12_FreshBudgetPerRequest == []C12_OwnBudget /\ [][C12_OwnStep]_vars

C12_Witness ==
  \E r1, r2 \in Req :
    /\ Done(r1) /\ outcomes[r1] = <<"429", "429", "429">>
    /\ raised[r1].type = "HTTPStatusError"
    /\ Done(r2) /\ outcomes[r2] = <<"timeout", "429", "2xx">>
    /\ calls[r2] = 3 /\ sleeps[r2] = <<1, 2>> /\ raised[r2].type = "None"

\* While a request is suspended in its backoff, every other request that is
\* not yet answered has a step it can take.
C13_OthersEnabled ==
  \A r1, r2 \in Req :
    (r1 # r2 /\ pc[r1] = "backoff" /\ pc[r2] \in {"mock", "post", "backoff"}) =>
      ENABLED Resume(r2)

\* C13: the backoff is a non-blocking suspension: while request 1 is
\* suspended in a retry delay, request 2 can take its steps, and once
\* received it runs to its answer even if request 1 never resumes.
C13_BackoffBlocksNobody ==
  /\ []C13_OthersEnabled
  /\ (pc[2] # "idle") ~> (pc[2] = "done")

C13_Witness ==
  /\ pc[1] = "backoff" /\ sleeps[1] = <<1>>
  /\ Done(2) /\ calls[2] = 3 /\ sleeps[2] = <<1, 2>>

\* The attempt index stays in 0..2 and a request has at most 3 provider
\* calls made, and answered, on its behalf.
C14_Bounded ==
  \A r \in Req :
    /\ attempt[r] \in 0..2
    /\ calls[r] <= 3
    /\ Len(outcomes[r]) <= calls[r]

\* The executor is entered (attempt 0 awaiting its post) only when the
\* request is received, an answered call is followed by another only
\* through the executor's own backoff, and an answered request does nothing
\* more.
C14_OneInvocation ==
  \A r \in Req :
    /\ (pc'[r] = "post" /\ pc[r] # "post") =>
         \/ pc[r] = "idle" /\ attempt'[r] = 0 /\ calls'[r] = 1
         \/ pc[r] = "backoff" /\ attempt'[r] = attempt[r] + 1 /\ calls'[r] = calls[r] + 1
    /\ (pc[r] = "post" /\ pc'[r] = "post") => outcomes'[r] = outcomes[r]
    /\ Done(r) => Own(r)' = Own(r)

\* C14: the attempt index is always in [0, MAX_RETRIES), each request
\* enters the executor at most once, and so at most 3 provider calls are
\* made for one request: the endpoints retry nothing themselves.
C14_AtMostThreeCalls == []C14_Bounded /\ [][C14_OneInvocation]_vars

C14_Witness ==
  \E r \in Req :
    /\ Done(r) /\ attempt[r] = 2 /\ calls[r] = 3
    /\ kind[r] = "text" /\ response[r].status = 502

\* Every call of the request was answered by a 2xx, a 429, another non-2xx
\* status or a timeout.
FourOutcomes(r) ==
  \A i \in 1..Len(outcomes[r]) : outcomes[r][i] \in {"2xx", "429", "error", "timeout"}

Returned(r) == raised[r].type = "None" /\ data[r].isJson
RaisedStatus(r, codes) ==
  raised[r].type = "HTTPStatusError" /\ raised[r].status_code \in codes

\* Once the executor has been entered, it ends.
C15_Ends == \A r \in Req : (pc[r] \in {"post", "backoff"}) ~> Done(r)

\* How the executor ends, by the last answer: a 2xx with a JSON body is
\* returned, a 2xx whose body is not JSON raises the decoding error, a 429
\* the rate-limit error, a timeout the timeout, another status its error.
C15_EndsByLastOutcome ==
  \A r \in Req :
    (Done(r) /\ Called(r) /\ FourOutcomes(r)) =>
      /\ LastOutcome(r) = "2xx" =>
           \/ Returned(r)
           \/ raised[r].type = "JSONDecodeError" /\ ~data[r].isJson
      /\ LastOutcome(r) = "429" => RaisedStatus(r, {429}) /\ calls[r] = 3
      /\ LastOutcome(r) = "timeout" => raised[r].type = "TimeoutException" /\ calls[r] = 3
      /\ LastOutcome(r) = "error" => RaisedStatus(r, {500})

\* C15: with every post answered and every sleep ending, the executor
\* ends, after at most 3 calls: it returns the provider's JSON response or
\* fails with the rate-limit, timeout or provider error of its last call
\* (a 2xx whose body is not JSON ends it too, with the decoding error).
C15_Terminates == C15_Ends /\ []C15_EndsByLastOutcome /\ [](\A r \in Req : calls[r] <= 3)

C15_Witness ==
  \E r \in Req :
    /\ Done(r) /\ outcomes[r] = <<"429", "timeout", "timeout">>
    /\ raised[r].type = "TimeoutException" /\ sleeps[r] = <<1, 2>>

Retryable(c) == c \in {"429", "timeout"}

\* C16: when the first k answers (k < 3) are 429s or timeouts and answer
\* k + 1 is a 2xx, the executor ends there: k + 1 calls made, the first k
\* entries of the schedule 1, 2, 4 slept in order, the response returned
\* (its JSON body) and no call after it.
C16_SuccessAfterRetries ==
  \A r \in Req :
    (Called(r) /\ LastOutcome(r) = "2xx") =>
      LET k == Len(outcomes[r]) - 1
      IN /\ k < 3
         /\ \A i \in 1..k : Retryable(outcomes[r][i])
         /\ Done(r)
         /\ calls[r] = k + 1
         /\ sleeps[r] = SubSeq(<<1, 2, 4>>, 1, k)
         /\ raised[r].type \in {"None", "JSONDecodeError"}
         /\ raised[r].type = "None" <=> data[r].isJson

C16_Witness ==
  \E r \in Req :
    /\ Done(r) /\ outcomes[r] = <<"timeout", "429", "2xx">>
    /\ calls[r] = 3 /\ sleeps[r] = <<1, 2>>
    /\ raised[r].type = "None" /\ data[r].isJson

\* C17: when the executor fails on its third call, the error it raises is
\* that of the third call, not of an earlier one: after timeout, timeout,
\* 429 the rate-limit error, after 429, 429, timeout the timeout.
C17_LastErrorPropagates ==
  \A r \in Req :
    (Done(r) /\ Len(outcomes[r]) = 3) =>
      /\ LastOutcome(r) = "429" => raised[r] = RateLimitError
      /\ LastOutcome(r) = "timeout" => raised[r].type = "TimeoutException"
      /\ LastOutcome(r) = "error" =>
           (raised[r].type = "HTTPStatusError" /\ raised[r].status_code = 500)
      /\ Retryable(LastOutcome(r)) => raised[r] = last_error[r]

C17_Witness ==
  \E r \in Req :
    /\ Done(r) /\ outcomes[r] = <<"timeout", "timeout", "429">>
    /\ raised[r].type = "HTTPStatusError" /\ raised[r].status_code = 429

\* The provider's output can be parsed into findings.
Parsable(d) ==
  d.isJson /\ d.shaped /\
  d.content \in {"{}", "{\"found\": []}", "{\"found\": [E]}", "{\"found\": [N, E]}"}

\* C18: on the text endpoint with a key, when the provider call fails or
\* its output cannot be parsed, the answer is an error (HTTP 502 or 500)
\* and carries no findings: the local findings of the request are not
\* returned on their own.
C18_NoPartialResult ==
  \A r \in Req :
    (kind[r] = "text" /\ HasKey /\ Done(r)) =>
      IF raised[r].type = "None" /\ Parsable(data[r])
      THEN response[r].status = 200
      ELSE /\ response[r].status \in {500, 502}
           /\ ~response[r].body.isList
           /\ response[r].body.items = <<>>

C18_Witness ==
  \E r \in Req :
    /\ kind[r] = "text" /\ HasKey /\ Done(r)
    /\ text[r] = <<"De", "heer">> /\ Len(regex_results[r]) = 1
    /\ raised[r].type = "None" /\ data[r].content = "oops"
    /\ response[r].status = 500 /\ response[r].body.items = <<>>

\* A request sleeps only before its third attempt, with its last error set.
C19_SleepsBeforeLastAttempt ==
  \A r \in Req :
    /\ pc[r] = "backoff" => (attempt[r] < 2 /\ last_error[r].type # "None")
    /\ raised[r].type # "TypeError"

\* A sleep that ends is followed by the next post, never by the end of the
\* request.
C19_WakePosts ==
  \A r \in Req :
    (pc[r] = "backoff" /\ pc'[r] # "backoff") =>
      (pc'[r] = "post" /\ attempt'[r] = attempt[r] + 1 /\ raised'[r] = raised[r])

\* C19: the `raise last_error` after the retry loop is never reached: a
\* request sleeps only on attempts 0 and 1, so the loop always has another
\* iteration after a `continue`, the executor ends only by the return or a
\* raise inside the loop, and None is never raised.
C19_FallThroughUnreachable == []C19_SleepsBeforeLastAttempt /\ [][C19_WakePosts]_vars

C19_Witness ==
  \E r \in Req :
    /\ Done(r) /\ Len(outcomes[r]) = 3 /\ Retryable(LastOutcome(r))
    /\ attempt[r] = 2 /\ sleeps[r] = <<1, 2>>
    /\ raised[r] = last_error[r]

====
